---- MODULE Spec2Model ----
(***************************************************************************)
(* Tube Roulette (buckshot_roulette_cli.py): the round/turn engine, the    *)
(* shotgun, the eight item effects, the dealer's heuristic policy and the  *)
(* human's prompts, as a state machine.                                    *)
(*                                                                         *)
(* One turn_loop call is split at its blocking points: the human's item    *)
(* prompt (pc = "items", left by the shot the human aims after declining   *)
(* further items), and the five coin flips and the target choice of the    *)
(* dealer's pass (pc = "ai_..."). pc = "step" is the top of turn_loop,     *)
(* entered from play()'s while loop; pc = "over" is play() past its loop.  *)
(* An exception leaving play() is pc = "crashed".                          *)
(*                                                                         *)
(* Python's 0-based shells[index] is shells[index + 1] here.               *)
(***************************************************************************)
EXTENDS Integers, Sequences, FiniteSets, TLC

VARIABLES
    shells,           \* Shotgun.shells
    index,            \* Shotgun.index, the cursor
    hp,               \* Actor.hp of each actor
    inventory,        \* Actor.inventory of each actor, a list of ItemId
    skip_next,        \* Actor.skip_next
    dmg_mult,         \* Actor.dmg_mult
    current_known,    \* Actor.knowledge.current_known
    known_positions,  \* Actor.knowledge.known_positions, a dict index -> Shell
    turn,             \* Game.turn
    round_no,         \* Game.round_no
    last_log,         \* the last entry of Game.transcript
    raised,           \* the exception that left play(), or None
    pc,               \* the position inside play() / turn_loop()
    p_live,           \* ai_maybe_use_item's local p_live, a fraction <<num, den>>
    steal_ans         \* the answer the human holds for Adrenaline's steal prompt

gvars == <<shells, index, hp, inventory, skip_next, dmg_mult, current_known,
           known_positions, last_log, raised>>
vars == <<shells, index, hp, inventory, skip_next, dmg_mult, current_known,
          known_positions, turn, round_no, last_log, raised, pc, p_live, steal_ans>>

(***************************************************************************)
(* Values                                                                  *)
(***************************************************************************)
None == "None"
LIVE == "LIVE"
BLANK == "BLANK"
Shell == {LIVE, BLANK}

player == "player"
dealer == "dealer"
Actors == {player, dealer}

\* Actor.ai: the dealer is constructed with ai=True, the player without.
ai(a) == a = dealer

MAGNIFYING_GLASS == "MAGNIFYING_GLASS"
BEER == "BEER"
HANDCUFFS == "HANDCUFFS"
HAND_SAW == "HAND_SAW"
INVERTER == "INVERTER"
BURNER_PHONE == "BURNER_PHONE"
CIGARETTE == "CIGARETTE"
ADRENALINE == "ADRENALINE"
ItemId == {MAGNIFYING_GLASS, BEER, HANDCUFFS, HAND_SAW, INVERTER, BURNER_PHONE,
           CIGARETTE, ADRENALINE}

(***************************************************************************)
(* Config, and the bounds of the exploration                               *)
(***************************************************************************)
\* Config.min_shells
MinShells == 2
\* Config.max_shells (8 by default), bounded
MaxShells == 4
\* Config.player_max_hp and Config.dealer_max_hp (4 by default), bounded
PlayerMaxHp == 2
DealerMaxHp == 2
\* Config.items_per_round
ItemsMin == 2
ItemsMax == 4
\* the last round the exploration reloads into
MaxRounds == 2

max_hp(a) == IF a = player THEN PlayerMaxHp ELSE DealerMaxHp

\* Shotgun.load: n shells, 1 .. n-1 of them LIVE, in any order.
Loads ==
    UNION { { s \in [1..n -> Shell] :
                /\ \E i \in 1..n : s[i] = LIVE
                /\ \E i \in 1..n : s[i] = BLANK }
            : n \in MinShells..MaxShells }

\* deal_items: for each actor, random.sample(list(ItemId), k) with k in
\* items_per_round. The exploration draws the two inventories from these
\* outcomes of the two samples.
Deal(p, d) == [a \in Actors |-> IF a = player THEN p ELSE d]

Deals ==
    { Deal(<<MAGNIFYING_GLASS, INVERTER, BEER>>, <<HAND_SAW, CIGARETTE>>),
      Deal(<<BURNER_PHONE, INVERTER, HANDCUFFS>>, <<CIGARETTE, BURNER_PHONE>>),
      Deal(<<HAND_SAW, CIGARETTE, ADRENALINE>>,
           <<MAGNIFYING_GLASS, BEER, HANDCUFFS>>) }

(***************************************************************************)
(* Helpers                                                                 *)
(***************************************************************************)
\* Game.other
other(a) == IF a = player THEN dealer ELSE player

\* one transcript entry: what the message of Game.log narrates
Log(kind, user, target, shell, a, b) ==
    [kind |-> kind, user |-> user, target |-> target, shell |-> shell,
     a |-> a, b |-> b]

\* the Game aggregate the item effects read and mutate
Game ==
    [shells |-> shells, index |-> index, hp |-> hp, inventory |-> inventory,
     skip_next |-> skip_next, dmg_mult |-> dmg_mult,
     current_known |-> current_known, known_positions |-> known_positions,
     last_log |-> last_log, raised |-> raised]

Commit(g) ==
    /\ shells' = g.shells
    /\ index' = g.index
    /\ hp' = g.hp
    /\ inventory' = g.inventory
    /\ skip_next' = g.skip_next
    /\ dmg_mult' = g.dmg_mult
    /\ current_known' = g.current_known
    /\ known_positions' = g.known_positions
    /\ last_log' = g.last_log
    /\ raised' = g.raised

\* Shotgun.remaining
remaining(g) == Len(g.shells) - g.index

\* Shotgun.counts_remaining: (live, blank) over shells[index:]
counts_remaining(g) ==
    << Cardinality({i \in (g.index + 1)..Len(g.shells) : g.shells[i] = LIVE}),
       Cardinality({i \in (g.index + 1)..Len(g.shells) : g.shells[i] = BLANK}) >>

Flip(s) == IF s = LIVE THEN BLANK ELSE LIVE

\* Shotgun.invert_current
invert_current(g) ==
    IF g.index >= Len(g.shells) THEN g
    ELSE [g EXCEPT !.shells[g.index + 1] = Flip(g.shells[g.index + 1])]

\* list.remove: the list without its first occurrence of iid
Remove(inv, iid) ==
    LET k == CHOOSE i \in 1..Len(inv) :
                 inv[i] = iid /\ \A j \in 1..(i - 1) : inv[j] # iid
    IN  SubSeq(inv, 1, k - 1) \o SubSeq(inv, k + 1, Len(inv))

Holds(inv, iid) == \E i \in 1..Len(inv) : inv[i] = iid

\* Actor.pop_item
pop_item(g, a, iid) ==
    IF Holds(g.inventory[a], iid)
    THEN [g EXCEPT !.inventory[a] = Remove(g.inventory[a], iid)]
    ELSE g

\* heal without the clamp to max_hp
heal_unclamped(g, a, n) == [g EXCEPT !.hp[a] = g.hp[a] + n]

\* Actor.heal
heal(g, a, n) ==
    [g EXCEPT !.hp[a] = IF g.hp[a] + n < max_hp(a) THEN g.hp[a] + n ELSE max_hp(a)]

\* hurt that ignores its amount
hurt_unit(g, a, n) == [g EXCEPT !.hp[a] = g.hp[a] - 1]

\* Actor.hurt
hurt(g, a, n) == [g EXCEPT !.hp[a] = g.hp[a] - n]

(***************************************************************************)
(* Item effects: Item.use(game, user, target). Each returns the Game after *)
(* the effect; an exception is recorded in raised and nothing else is      *)
(* changed by the statement that raised.                                   *)
(***************************************************************************)
\* MagnifyingGlass.use; peek_current indexes shells[index], an IndexError
\* when the magazine is exhausted.
MagnifyingGlassUse(g, user, target) ==
    IF g.index >= Len(g.shells)
    THEN [g EXCEPT !.raised = "IndexError"]
    ELSE [g EXCEPT !.current_known[user] = g.shells[g.index + 1],
                   !.last_log = Log("magnifying_glass", user, None,
                                    g.shells[g.index + 1], 0, 0)]

\* Beer.use that leaves what the actors knew of the ejected shell
BeerUse_keeps_known(g, user, target) ==
    IF remaining(g) = 0
    THEN [g EXCEPT !.last_log = Log("beer_empty", user, None, None, 0, 0)]
    ELSE [g EXCEPT !.index = g.index + 1,
                   !.last_log = Log("beer", user, None, g.shells[g.index + 1], 0, 0)]

\* Beer.use; eject_current is fire()
BeerUse(g, user, target) ==
    IF remaining(g) = 0
    THEN [g EXCEPT !.last_log = Log("beer_empty", user, None, None, 0, 0)]
    ELSE [g EXCEPT !.index = g.index + 1,
                   !.current_known = [a \in Actors |-> None],
                   !.last_log = Log("beer", user, None, g.shells[g.index + 1], 0, 0)]

\* Handcuffs.use
HandcuffsUse(g, user, target) ==
    [g EXCEPT !.skip_next[target] = TRUE,
              !.last_log = Log("handcuffs", user, target, None, 0, 0)]

\* HandSaw.use
HandSawUse(g, user, target) ==
    [g EXCEPT !.dmg_mult[user] = 2,
              !.last_log = Log("hand_saw", user, None, None, 0, 0)]

\* Inverter.use that flips the shell and not the user's knowledge of it
InverterUse_stale(g, user, target) ==
    [invert_current(g) EXCEPT !.last_log = Log("inverter", user, None, None, 0, 0)]

\* Inverter.use
InverterUse(g, user, target) ==
    LET g1 == invert_current(g)
    IN  [g1 EXCEPT !.current_known[user] =
                       IF g.current_known[user] # None
                       THEN Flip(g.current_known[user])
                       ELSE None,
                   !.last_log = Log("inverter", user, None, None, 0, 0)]

\* BurnerPhone.use that counts its offset from 0: it may reveal the current
\* shell
BurnerPhoneUse_from_current(g, user, target, rel_idx) ==
    IF remaining(g) <= 1
    THEN [g EXCEPT !.last_log = Log("burner_phone_none", user, None, None, 0, 0)]
    ELSE LET abs_idx == g.index + rel_idx - 1
             shell == g.shells[abs_idx + 1]
             kp == g.known_positions[user]
         IN  [g EXCEPT !.known_positions[user] =
                           [i \in (DOMAIN kp) \cup {abs_idx} |->
                               IF i = abs_idx THEN shell ELSE kp[i]],
                       !.last_log = Log("burner_phone", user, None, shell,
                                        rel_idx, abs_idx)]

\* BurnerPhone.use that tests rem < 1: with one shell left random.randint(1, 0)
\* raises ValueError
BurnerPhoneUse_off_by_one(g, user, target, rel_idx) ==
    IF remaining(g) < 1
    THEN [g EXCEPT !.last_log = Log("burner_phone_none", user, None, None, 0, 0)]
    ELSE IF remaining(g) = 1
    THEN [g EXCEPT !.raised = "ValueError"]
    ELSE LET abs_idx == g.index + rel_idx
             shell == g.shells[abs_idx + 1]
             kp == g.known_positions[user]
         IN  [g EXCEPT !.known_positions[user] =
                           [i \in (DOMAIN kp) \cup {abs_idx} |->
                               IF i = abs_idx THEN shell ELSE kp[i]],
                       !.last_log = Log("burner_phone", user, None, shell,
                                        rel_idx + 1, abs_idx)]

\* BurnerPhone.use; rel_idx is random.randint(1, rem - 1)
BurnerPhoneUse(g, user, target, rel_idx) ==
    IF remaining(g) <= 1
    THEN [g EXCEPT !.last_log = Log("burner_phone_none", user, None, None, 0, 0)]
    ELSE LET abs_idx == g.index + rel_idx
             shell == g.shells[abs_idx + 1]
             kp == g.known_positions[user]
         IN  [g EXCEPT !.known_positions[user] =
                           [i \in (DOMAIN kp) \cup {abs_idx} |->
                               IF i = abs_idx THEN shell ELSE kp[i]],
                       !.last_log = Log("burner_phone", user, None, shell,
                                        rel_idx + 1, abs_idx)]

\* Cigarette.use
CigaretteUse(g, user, target) ==
    LET g1 == heal(g, user, 1)
    IN  [g1 EXCEPT !.last_log = Log("cigarette", user, None, None,
                                    g.hp[user], g1.hp[user])]

\* Game.prompt_choose_item(actor, ...): the item chosen, or None; ans is the
\* line typed at the prompt (0 for ENTER), read only when the prompt is shown.
\* The chosen item is popped from actor's inventory (PromptPop).
prompt_choose_item(g, actor, ans) ==
    IF ai(actor) \/ g.inventory[actor] = <<>> THEN None
    ELSE IF ans \in 1..Len(g.inventory[actor]) THEN g.inventory[actor][ans]
    ELSE None

PromptPop(g, actor, ans) ==
    LET iid == prompt_choose_item(g, actor, ans)
    IN  IF iid = None THEN g ELSE pop_item(g, actor, iid)

\* Item.use of every item but Adrenaline; rnd holds the random draws and the
\* typed answers the effect may consume.
PlainUse(iid, g, user, target, rnd) ==
    CASE iid = MAGNIFYING_GLASS -> MagnifyingGlassUse(g, user, target)
      [] iid = BEER -> BeerUse(g, user, target)
      [] iid = HANDCUFFS -> HandcuffsUse(g, user, target)
      [] iid = HAND_SAW -> HandSawUse(g, user, target)
      [] iid = INVERTER -> InverterUse(g, user, target)
      [] iid = BURNER_PHONE -> BurnerPhoneUse(g, user, target, rnd.rel_idx)
      [] iid = CIGARETTE -> CigaretteUse(g, user, target)

\* ITEM_REGISTRY[iid].use(game, user, target), Adrenaline.use included: the
\* stolen item is used at once with the same user and target, and may be an
\* Adrenaline again.
RECURSIVE ItemUse(_, _, _, _, _)
ItemUse(iid, g, user, target, rnd) ==
    IF iid # ADRENALINE THEN PlainUse(iid, g, user, target, rnd)
    ELSE IF g.inventory[target] = <<>>
    THEN [g EXCEPT !.last_log = Log("adrenaline_nothing", user, None, None, 0, 0)]
    ELSE LET inv == g.inventory[target]
             steal_id == IF ai(user)
                         THEN inv[((rnd.choice - 1) % Len(inv)) + 1]
                         ELSE prompt_choose_item(g, target, rnd.ans)
             g1 == IF ai(user) THEN g ELSE PromptPop(g, target, rnd.ans)
         IN  IF steal_id = None
             THEN [g1 EXCEPT !.last_log =
                                 Log("adrenaline_cancel", user, None, None, 0, 0)]
             ELSE ItemUse(steal_id,
                          [pop_item(g1, target, steal_id) EXCEPT !.last_log =
                              Log("adrenaline_steal", user, target, steal_id, 0, 0)],
                          user, target, rnd)

(***************************************************************************)
(* Shot resolution and the dealer's target choice                          *)
(***************************************************************************)
\* resolve_shot that keeps the turn on every self-shot, and one that resets
\* dmg_mult on a LIVE shell only
resolve_shot_self_keeps(g, shooter, target) ==
    IF g.index >= Len(g.shells)
    THEN [g |-> [g EXCEPT !.raised = "RuntimeError"], keep |-> FALSE]
    ELSE LET shell == g.shells[g.index + 1]
             dmg == IF shell = LIVE THEN g.dmg_mult[shooter] ELSE 0
             g1 == [g EXCEPT !.index = g.index + 1,
                             !.current_known = [a \in Actors |-> None],
                             !.hp[target] = g.hp[target] - dmg,
                             !.dmg_mult[shooter] = 1]
         IN  [g |-> [g1 EXCEPT !.last_log = Log("fire", shooter, target, shell,
                                                dmg, g1.hp[target])],
              keep |-> shooter = target]

resolve_shot_blank_keeps_saw(g, shooter, target) ==
    IF g.index >= Len(g.shells)
    THEN [g |-> [g EXCEPT !.raised = "RuntimeError"], keep |-> FALSE]
    ELSE LET shell == g.shells[g.index + 1]
             dmg == IF shell = LIVE THEN g.dmg_mult[shooter] ELSE 0
             g1 == [g EXCEPT !.index = g.index + 1,
                             !.current_known = [a \in Actors |-> None],
                             !.hp[target] = g.hp[target] - dmg,
                             !.dmg_mult[shooter] =
                                 IF shell = LIVE THEN 1 ELSE g.dmg_mult[shooter]]
         IN  [g |-> [g1 EXCEPT !.last_log = Log("fire", shooter, target, shell,
                                                dmg, g1.hp[target])],
              keep |-> shell = BLANK /\ shooter = target]

\* resolve_shot whose fire() advances the cursor before it looks at the
\* magazine
resolve_shot_advance_first(g, shooter, target) ==
    IF g.index >= Len(g.shells)
    THEN [g |-> [g EXCEPT !.index = g.index + 1, !.raised = "RuntimeError"],
          keep |-> FALSE]
    ELSE LET shell == g.shells[g.index + 1]
             dmg == IF shell = LIVE THEN g.dmg_mult[shooter] ELSE 0
             g1 == [g EXCEPT !.index = g.index + 1,
                             !.current_known = [a \in Actors |-> None],
                             !.hp[target] = g.hp[target] - dmg,
                             !.dmg_mult[shooter] = 1]
         IN  [g |-> [g1 EXCEPT !.last_log = Log("fire", shooter, target, shell,
                                                dmg, g1.hp[target])],
              keep |-> shell = BLANK /\ shooter = target]

\* Game.resolve_shot: [g |-> the Game after it, keep |-> its return value].
\* Shotgun.fire raises RuntimeError when index >= len(shells).
resolve_shot(g, shooter, target) ==
    IF g.index >= Len(g.shells)
    THEN [g |-> [g EXCEPT !.raised = "RuntimeError"], keep |-> FALSE]
    ELSE LET shell == g.shells[g.index + 1]
             g1 == [g EXCEPT !.index = g.index + 1,
                             !.current_known = [a \in Actors |-> None]]
         IN  IF shell = LIVE
             THEN LET dmg == g1.dmg_mult[shooter]
                      g2 == hurt(g1, target, dmg)
                  IN  [g |-> [g2 EXCEPT !.dmg_mult[shooter] = 1,
                                        !.last_log = Log("fire", shooter, target,
                                                         LIVE, dmg, g2.hp[target])],
                       keep |-> FALSE]
             ELSE [g |-> [g1 EXCEPT !.dmg_mult[shooter] = 1,
                                    !.last_log = Log("fire", shooter, target,
                                                     BLANK, 0, g1.hp[target])],
                   keep |-> shooter = target]

\* the fraction live_left / max(1, live_left + blank_left)
PLive(g) ==
    LET c == counts_remaining(g)
    IN  << c[1], IF c[1] + c[2] < 1 THEN 1 ELSE c[1] + c[2] >>

\* p >= num / den, for a fraction p
AtLeast(p, num, den) == p[1] * den >= num * p[2]

\* ai_choose_target that reuses the item pass's p_live
ai_choose_target_stale(g, a) ==
    IF g.current_known[a] = LIVE THEN player
    ELSE IF g.current_known[a] = BLANK THEN a
    ELSE IF AtLeast(p_live, 5, 10) THEN player ELSE a

\* Game.ai_choose_target
ai_choose_target(g, a) ==
    IF g.current_known[a] = LIVE THEN player
    ELSE IF g.current_known[a] = BLANK THEN a
    ELSE IF AtLeast(PLive(g), 5, 10) THEN player ELSE a

(***************************************************************************)
(* The state after Game.__init__                                           *)
(***************************************************************************)
NoDraw == [rel_idx |-> 1, choice |-> 1, ans |-> 0]

Init ==
    /\ shells \in Loads
    /\ index = 0
    /\ hp = [a \in Actors |-> max_hp(a)]
    /\ inventory \in Deals
    /\ skip_next = [a \in Actors |-> FALSE]
    /\ dmg_mult = [a \in Actors |-> 1]
    /\ current_known = [a \in Actors |-> None]
    /\ known_positions = [a \in Actors |-> << >>]
    /\ turn = player
    /\ round_no = 1
    /\ last_log = Log("start", None, None, None, 0, 0)
    /\ raised = None
    /\ pc = "step"
    /\ p_live = <<0, 1>>
    /\ steal_ans = 0

(***************************************************************************)
(* turn_loop                                                               *)
(***************************************************************************)
\* play() whose while loop never looks at the actors' HP
After_no_victory_check(g, target) ==
    IF g.raised # None THEN "crashed" ELSE target

\* where play() goes after a piece of turn_loop: out with the exception, out
\* of the while loop when somebody is dead, or on to `target`
After(g, target) ==
    IF g.raised # None THEN "crashed"
    ELSE IF g.hp[player] > 0 /\ g.hp[dealer] > 0 THEN target
    ELSE "over"

\* the skip check that clears the flag and keeps the turn
SkipTurn_keeps_turn ==
    /\ pc = "step"
    /\ skip_next[turn]
    /\ skip_next' = [skip_next EXCEPT ![turn] = FALSE]
    /\ last_log' = Log("skip", turn, None, None, 0, 0)
    /\ UNCHANGED <<shells, index, hp, inventory, dmg_mult, current_known,
                   known_positions, round_no, raised, pc, p_live, turn, steal_ans>>

\* turn_loop, the skip check
SkipTurn ==
    /\ pc = "step"
    /\ skip_next[turn]
    /\ skip_next' = [skip_next EXCEPT ![turn] = FALSE]
    /\ last_log' = Log("skip", turn, None, None, 0, 0)
    /\ turn' = other(turn)
    /\ UNCHANGED <<shells, index, hp, inventory, dmg_mult, current_known,
                   known_positions, round_no, raised, pc, p_live, steal_ans>>

\* the reload check without "Player always starts the round"
Reload_keeps_turn ==
    /\ pc = "step"
    /\ ~skip_next[turn]
    /\ Len(shells) - index = 0
    /\ round_no < MaxRounds
    /\ round_no' = round_no + 1
    /\ shells' \in Loads
    /\ index' = 0
    /\ inventory' \in Deals
    /\ current_known' = [a \in Actors |-> None]
    /\ known_positions' = [a \in Actors |-> << >>]
    /\ last_log' = Log("new_round", None, None, None, 0, 0)
    /\ UNCHANGED <<hp, skip_next, dmg_mult, raised, pc, p_live, steal_ans, turn>>

\* turn_loop, the reload check, with Shotgun.load and deal_items
Reload ==
    /\ pc = "step"
    /\ ~skip_next[turn]
    /\ remaining(Game) = 0
    /\ round_no < MaxRounds
    /\ round_no' = round_no + 1
    /\ shells' \in Loads
    /\ index' = 0
    /\ inventory' \in Deals
    /\ current_known' = [a \in Actors |-> None]
    /\ known_positions' = [a \in Actors |-> << >>]
    /\ turn' = player
    /\ last_log' = Log("new_round", None, None, None, 0, 0)
    /\ UNCHANGED <<hp, skip_next, dmg_mult, raised, pc, p_live, steal_ans>>

\* turn_loop reaching show_state and use_item_flow: the human is prompted,
\* the dealer's pass computes its p_live
BeginItemPhase ==
    /\ pc = "step"
    /\ ~skip_next[turn]
    /\ remaining(Game) # 0
    /\ IF ai(turn)
       THEN pc' = "ai_cigarette" /\ p_live' = PLive(Game)
       ELSE pc' = "items" /\ UNCHANGED p_live
    /\ UNCHANGED <<gvars, turn, round_no, steal_ans>>

\* use_item_flow, the human: one answer to "Use an item before shooting?"
\* that picks item n, and the effect of that item. rel is the Burner Phone's
\* draw and ans the answer held for Adrenaline's steal prompt.
HumanUseItem ==
    /\ pc = "items"
    /\ \E n \in 1..Len(inventory[turn]), rel \in 1..(MaxShells - 1),
          ans \in 0..ItemsMax :
        LET iid == prompt_choose_item(Game, turn, n)
            g0 == PromptPop(Game, turn, n)
            phone == iid = BURNER_PHONE /\ remaining(Game) >= 2
            adr == iid = ADRENALINE
        IN  /\ IF phone THEN rel <= remaining(Game) - 1 ELSE rel = 1
            /\ IF adr THEN ans <= Len(inventory[other(turn)]) ELSE ans = 0
            /\ LET g1 == ItemUse(iid, g0, turn, other(turn),
                                 [rel_idx |-> rel, choice |-> 1, ans |-> ans])
               IN  /\ Commit(g1)
                   /\ pc' = After(g1, "items")
            /\ steal_ans' = ans
    /\ UNCHANGED <<turn, round_no, p_live>>

\* turn_loop from the resolved target on: resolve_shot, the turn hand-over
\* and the victory check
Shoot(target) ==
    LET r == resolve_shot(Game, turn, target)
    IN  /\ Commit(r.g)
        /\ turn' = IF r.g.raised = None /\ ~r.keep THEN other(turn) ELSE turn
        /\ pc' = After(r.g, "step")

\* use_item_flow and turn_loop, the human: ENTER at the item prompt (or an
\* empty inventory) ends the item phase, and the answer to "Shoot (S)elf or
\* (D)ealer?" picks the target of the shot
HumanShoot ==
    /\ pc = "items"
    /\ \E target \in Actors : Shoot(target)
    /\ steal_ans' = 0
    /\ UNCHANGED <<round_no, p_live>>

(***************************************************************************)
(* ai_maybe_use_item: five checks in a fixed order, each with its coin     *)
(***************************************************************************)
\* pop the item and use it on the player, as every branch of the pass does
AiUse(iid) == ItemUse(iid, pop_item(Game, turn, iid), turn, player, NoDraw)

AiCigarette ==
    /\ pc = "ai_cigarette"
    /\ \E coin \in BOOLEAN :
        LET g1 == IF hp[turn] < max_hp(turn) /\ Holds(inventory[turn], CIGARETTE) /\ coin
                  THEN AiUse(CIGARETTE) ELSE Game
        IN  Commit(g1) /\ pc' = After(g1, "ai_glass")
    /\ UNCHANGED <<turn, round_no, p_live, steal_ans>>

AiMagnifyingGlass ==
    /\ pc = "ai_glass"
    /\ \E coin \in BOOLEAN :
        LET use == /\ current_known[turn] = None
                   /\ Holds(inventory[turn], MAGNIFYING_GLASS)
                   /\ coin
            g1 == IF use THEN AiUse(MAGNIFYING_GLASS) ELSE Game
        IN  /\ Commit(g1)
            /\ pc' = After(g1, "ai_saw")
            /\ p_live' = IF use /\ g1.current_known[turn] # None
                         THEN IF g1.current_known[turn] = LIVE
                              THEN <<1, 1>> ELSE <<0, 1>>
                         ELSE p_live
    /\ UNCHANGED <<turn, round_no, steal_ans>>

AiHandSaw ==
    /\ pc = "ai_saw"
    /\ \E coin \in BOOLEAN :
        LET g1 == IF AtLeast(p_live, 6, 10) /\ Holds(inventory[turn], HAND_SAW) /\ coin
                  THEN AiUse(HAND_SAW) ELSE Game
        IN  Commit(g1) /\ pc' = After(g1, "ai_beer")
    /\ UNCHANGED <<turn, round_no, p_live, steal_ans>>

AiBeer ==
    /\ pc = "ai_beer"
    /\ \E coin \in BOOLEAN :
        LET g1 == IF remaining(Game) > 2 /\ Holds(inventory[turn], BEER) /\ coin
                  THEN AiUse(BEER) ELSE Game
        IN  Commit(g1) /\ pc' = After(g1, "ai_cuffs")
    /\ UNCHANGED <<turn, round_no, p_live, steal_ans>>

AiHandcuffs ==
    /\ pc = "ai_cuffs"
    /\ \E coin \in BOOLEAN :
        LET g1 == IF AtLeast(p_live, 6, 10) /\ Holds(inventory[turn], HANDCUFFS) /\ coin
                  THEN AiUse(HANDCUFFS) ELSE Game
        IN  Commit(g1) /\ pc' = After(g1, "ai_aim")
    /\ UNCHANGED <<turn, round_no, p_live, steal_ans>>

\* turn_loop, the dealer's aim and shot
AiShoot ==
    /\ pc = "ai_aim"
    /\ Shoot(ai_choose_target(Game, turn))
    /\ p_live' = <<0, 1>>
    /\ UNCHANGED <<round_no, steal_ans>>

Next ==
    \/ SkipTurn
    \/ Reload
    \/ BeginItemPhase
    \/ HumanUseItem
    \/ HumanShoot
    \/ AiCigarette
    \/ AiMagnifyingGlass
    \/ AiHandSaw
    \/ AiBeer
    \/ AiHandcuffs
    \/ AiShoot

Spec == Init /\ [][Next]_vars

\* play(): the result once the while loop is left
Result == IF hp[player] > 0 THEN "PLAYER_WIN" ELSE "DEALER_WIN"

(***************************************************************************)
(* Steps, as the claims name them                                          *)
(***************************************************************************)
\* a shell is fired by resolve_shot (the human's or the dealer's)
ShotStep ==
    /\ pc \in {"items", "ai_aim"}
    /\ index' = index + 1
    /\ last_log'.kind = "fire"

\* the actor at turn uses item iid from its own inventory
UseStep(iid) ==
    /\ pc \in {"items", "ai_cigarette", "ai_glass", "ai_saw", "ai_beer", "ai_cuffs"}
    /\ Holds(inventory[turn], iid)
    /\ ~Holds(inventory'[turn], iid)

ReloadStep == round_no' # round_no

Distinct(inv) == \A i, j \in 1..Len(inv) : inv[i] = inv[j] => i = j

(***************************************************************************)
(* C1. Turn retention law: after a shot by shooter S at target T, when the *)
(* game continues, the turn pointer is S exactly when the fired shell was  *)
(* BLANK and T is S; a LIVE shell, and a BLANK fired at the opponent, hand *)
(* the turn to the opponent.                                               *)
(***************************************************************************)
C1_TurnRetention ==
    (last_log.kind = "fire" /\ pc = "step") =>
        /\ turn = last_log.user <=>
               (last_log.shell = BLANK /\ last_log.target = last_log.user)
        /\ turn # last_log.user => turn = other(last_log.user)

\* a LIVE self-shot that was survived: the turn went to the opponent
C1_Witness ==
    /\ last_log.kind = "fire"
    /\ pc = "step"
    /\ last_log.shell = LIVE
    /\ last_log.target = last_log.user
    /\ turn = other(last_log.user)

(***************************************************************************)
(* C2. fire() is never invoked with cursor >= N: the "empty shotgun"       *)
(* RuntimeError is unreachable.                                            *)
(***************************************************************************)
C2_NoEmptyFire == raised # "RuntimeError"

(***************************************************************************)
(* C3. A human Adrenaline use that selects an item of the dealer's         *)
(* non-empty inventory removes that item from the dealer's inventory, adds *)
(* it to no inventory and applies its effect at once with the human as     *)
(* user (a stolen Cigarette heals a human below max HP by 1).              *)
(***************************************************************************)
C3_HumanSteal ==
    [][ steal_ans' # 0 =>
          LET item == inventory[dealer][steal_ans']
          IN  /\ ~Holds(inventory'[dealer], item)
              /\ Len(inventory'[dealer]) = Len(inventory[dealer]) - 1
              /\ ~Holds(inventory'[player], item)
              /\ (item = CIGARETTE /\ hp[player] < max_hp(player))
                     => hp'[player] = hp[player] + 1 ]_vars

(***************************************************************************)
(* C4. Knowledge invalidation: right after every cursor advance (a shot, a *)
(* Beer ejection) and after every reload, both actors' current_known are   *)
(* unknown.                                                                *)
(***************************************************************************)
C4_KnowledgeInvalidation ==
    [][ (index' # index \/ round_no' # round_no) =>
          \A a \in Actors : current_known'[a] = None ]_vars

\* the human looked at shell 0 with the Magnifying Glass and then ejected
\* it with Beer: the knowledge is gone
C4_Witness ==
    /\ last_log.kind = "beer"
    /\ last_log.user = player
    /\ index = 1
    /\ inventory[player] = <<INVERTER>>
    /\ current_known[player] = None

(***************************************************************************)
(* C5. Inverter consistency: when Inverter is used while an actor's        *)
(* current_known is set, afterwards that actor's current_known is the      *)
(* negation of its previous value and equals the shell at the cursor; for  *)
(* the user and for the opponent.                                          *)
(***************************************************************************)
C5_InverterConsistency ==
    [][ UseStep(INVERTER) =>
          \A a \in Actors :
              current_known[a] # None =>
                  /\ current_known'[a] = Flip(current_known[a])
                  /\ index' < Len(shells')
                  /\ current_known'[a] = shells'[index' + 1] ]_vars

\* the Inverter was the last item used and its user knows the shell
C5_Witness ==
    /\ last_log.kind = "inverter"
    /\ current_known[last_log.user] # None

(***************************************************************************)
(* C6. Damage multiplier reset: after any shot fired by actor A, LIVE or   *)
(* BLANK, at anyone, A's dmg_mult is 1; and at the start of every turn     *)
(* step both actors' dmg_mult are 1.                                       *)
(***************************************************************************)
C6_DmgMultReset ==
    /\ last_log.kind = "fire" => dmg_mult[last_log.user] = 1
    /\ pc = "step" => \A a \in Actors : dmg_mult[a] = 1

\* the human's first shot of a round was a BLANK fired after its Hand Saw
\* (of the hands dealt, the one with Adrenaline holds the Hand Saw), and the
\* multiplier is back to 1
C6_Witness ==
    /\ last_log.kind = "fire"
    /\ last_log.shell = BLANK
    /\ last_log.user = player
    /\ index = 1
    /\ Holds(inventory[player], ADRENALINE)
    /\ ~Holds(inventory[player], HAND_SAW)
    /\ dmg_mult[player] = 1
    /\ pc = "step"

(***************************************************************************)
(* C7. Shot damage: a LIVE shot reduces the target's HP by the shooter's   *)
(* dmg_mult at the moment of firing and leaves the other actor's HP alone; *)
(* a BLANK shot changes nobody's HP. That dmg_mult is 2 when the shooter   *)
(* used Hand Saw earlier in the same item phase and 1 otherwise: it is 1   *)
(* at the top of every step, a Hand Saw use sets the user's to 2, and no   *)
(* other step but a shot changes it.                                       *)
(***************************************************************************)
C7_ShotDamage ==
    [][ /\ ShotStep =>
              LET t == last_log'.target
              IN  /\ shells[index + 1] = LIVE =>
                         /\ hp'[t] = hp[t] - dmg_mult[turn]
                         /\ hp'[other(t)] = hp[other(t)]
                         /\ dmg_mult[turn] \in {1, 2}
                  /\ shells[index + 1] = BLANK => hp' = hp
        /\ pc = "step" => \A a \in Actors : dmg_mult[a] = 1
        /\ UseStep(HAND_SAW) => dmg_mult' = [dmg_mult EXCEPT ![turn] = 2]
        /\ (~ShotStep /\ ~UseStep(HAND_SAW)) => dmg_mult' = dmg_mult ]_vars

\* a LIVE shot with the Hand Saw bonus took 2 HP
C7_Witness ==
    /\ last_log.kind = "fire"
    /\ last_log.shell = LIVE
    /\ last_log.a = 2
    /\ last_log.target # last_log.user

(***************************************************************************)
(* C8. Reload reset: a reload happens only when remaining() = 0; after it  *)
(* the round counter is one higher, the magazine is a fresh load with      *)
(* cursor 0, each inventory is a draw of distinct items of a size within   *)
(* items_per_round, both knowledge stores are empty, the turn pointer is   *)
(* the human player, no shell was fired and both HP are unchanged.         *)
(***************************************************************************)
C8_ReloadReset ==
    /\ [](last_log.kind = "new_round" =>
             /\ shells \in Loads
             /\ index = 0
             /\ \A a \in Actors :
                    /\ Distinct(inventory[a])
                    /\ Len(inventory[a]) \in ItemsMin..ItemsMax
                    /\ \A i \in 1..Len(inventory[a]) : inventory[a][i] \in ItemId
                    /\ current_known[a] = None
                    /\ known_positions[a] = << >>
             /\ turn = player)
    /\ [][ ReloadStep =>
              /\ Len(shells) - index = 0
              /\ round_no' = round_no + 1
              /\ last_log'.kind = "new_round"
              /\ hp' = hp ]_vars

\* a reload that took the turn from the dealer, with the dealer hurt before
C8_Witness ==
    /\ last_log.kind = "new_round"
    /\ round_no = 2
    /\ turn = player
    /\ hp[dealer] < max_hp(dealer)

(***************************************************************************)
(* C9. The human player opens every round: while the magazine of a round   *)
(* is untouched (cursor 0), the actor in its item, aim and shot phases is  *)
(* the human player.                                                       *)
(***************************************************************************)
C9_PlayerOpensRound ==
    (index = 0 /\ pc \notin {"step", "over", "crashed"}) => turn = player

(***************************************************************************)
(* C10. Terminal condition: once a shot has brought an actor's HP to 0 or  *)
(* below no further step is executed; exactly one actor has HP <= 0 then,  *)
(* and the result is PLAYER_WIN exactly when the human's HP is above 0,    *)
(* that is when the dealer is the one who is down.                         *)
(***************************************************************************)
C10_Terminal ==
    [][ /\ \A a \in Actors : hp[a] > 0
        /\ (\E a \in Actors : hp'[a] <= 0) =>
               /\ ShotStep
               /\ pc' = "over"
               /\ Cardinality({a \in Actors : hp'[a] <= 0}) = 1
               /\ (Result' = "PLAYER_WIN") <=> (hp'[player] > 0)
               /\ (Result' = "PLAYER_WIN") <=> (hp'[dealer] <= 0)
               /\ Result' \in {"PLAYER_WIN", "DEALER_WIN"} ]_vars

\* the game is over and the dealer won
C10_Witness ==
    /\ pc = "over"
    /\ Result = "DEALER_WIN"
    /\ hp[player] <= 0
    /\ hp[dealer] > 0


(***************************************************************************)
(* C11. Cursor monotonicity: within a round every successful fire() and    *)
(* every eject_current() raises the cursor by exactly 1, no other          *)
(* operation changes it, and 0 <= cursor <= N in every reachable state,    *)
(* also when fire() is attempted on an exhausted magazine.                 *)
(***************************************************************************)
\* the shot of a step went off: the step leaves its item or aim phase
\* without an exception
FireStep ==
    /\ pc \in {"items", "ai_aim"}
    /\ pc' \in {"step", "over"}

C11_CursorMonotonic ==
    [][ /\ 0 <= index /\ index <= Len(shells)
        /\ 0 <= index' /\ index' <= Len(shells')
        /\ ~ReloadStep =>
              /\ shells' \in [1..Len(shells) -> Shell]
              /\ FireStep => index' = index + 1
              /\ (UseStep(BEER) /\ index < Len(shells)) => index' = index + 1
              /\ (~FireStep /\ ~UseStep(BEER)) => index' = index
              /\ raised' # None => index' = index ]_vars

\* fire() was attempted on the exhausted magazine: the cursor stayed at N
C11_Witness ==
    /\ raised = "RuntimeError"
    /\ index = Len(shells)


(***************************************************************************)
(* C12. Inapplicable effects are no-ops: Beer at remaining() = 0, Burner   *)
(* Phone at remaining() <= 1 and Adrenaline against an empty inventory     *)
(* change nothing in the shell sequence, the cursor, either HP, the        *)
(* knowledge, skip_next, dmg_mult, the opponent's inventory or the turn    *)
(* pointer; only the used item is gone, a message is appended, and play    *)
(* continues in the same item phase.                                       *)
(***************************************************************************)
InapplicableStep(iid) ==
    /\ UseStep(iid)
    /\ \/ iid = BEER /\ Len(shells) - index = 0
       \/ iid = BURNER_PHONE /\ Len(shells) - index <= 1
       \/ iid = ADRENALINE /\ inventory[other(turn)] = << >>

NoOpKind(iid) ==
    CASE iid = BEER -> "beer_empty"
      [] iid = BURNER_PHONE -> "burner_phone_none"
      [] iid = ADRENALINE -> "adrenaline_nothing"

C12_InapplicableNoOp ==
    [][ \A iid \in {BEER, BURNER_PHONE, ADRENALINE} :
          InapplicableStep(iid) =>
              /\ UNCHANGED <<shells, index, hp, current_known, known_positions,
                             skip_next, dmg_mult, turn, round_no>>
              /\ inventory'[other(turn)] = inventory[other(turn)]
              /\ inventory'[turn] = Remove(inventory[turn], iid)
              /\ last_log' = Log(NoOpKind(iid), turn, None, None, 0, 0)
              /\ raised' = None
              /\ pc' = pc ]_vars

\* the human used the Burner Phone on the last shell of a magazine
C12_Witness ==
    /\ last_log.kind = "burner_phone_none"
    /\ last_log.user = player
    /\ Len(shells) - index = 1
    /\ pc = "items"

\* the human used Adrenaline on a dealer who had used up its items
C12_WitnessAdrenaline ==
    /\ last_log.kind = "adrenaline_nothing"
    /\ inventory[dealer] = << >>
    /\ pc = "items"


(***************************************************************************)
(* C13. Cigarette heals its user by exactly 1 HP below max_hp and leaves   *)
(* the HP alone at max_hp; in every reachable state each actor's HP is at  *)
(* most its max_hp.                                                        *)
(***************************************************************************)
C13_CigaretteHeal ==
    /\ \A a \in Actors : hp[a] <= max_hp(a)
    /\ last_log.kind = "cigarette" =>
           /\ last_log.a < max_hp(last_log.user) => last_log.b = last_log.a + 1
           /\ last_log.a >= max_hp(last_log.user) => last_log.b = last_log.a
           /\ hp[last_log.user] = last_log.b

\* a Cigarette smoked at full HP: the transcript reads max -> max
C13_Witness ==
    /\ last_log.kind = "cigarette"
    /\ last_log.a = max_hp(last_log.user)
    /\ hp[last_log.user] = max_hp(last_log.user)

\* a Cigarette smoked below full HP
C13_WitnessHealed ==
    /\ last_log.kind = "cigarette"
    /\ last_log.b = last_log.a + 1


(***************************************************************************)
(* C14. Skip check: a step that starts with the acting actor's skip_next   *)
(* set only clears that flag, logs and hands the turn to the opponent; the *)
(* shell sequence, the cursor, the round counter, both HP, both            *)
(* inventories, both knowledge stores, both dmg_mult and the opponent's    *)
(* skip_next are unchanged, and no reload happens, also on an empty        *)
(* magazine.                                                               *)
(***************************************************************************)
C14_SkipCheck ==
    [][ (pc = "step" /\ skip_next[turn]) =>
          /\ skip_next' = [skip_next EXCEPT ![turn] = FALSE]
          /\ last_log' = Log("skip", turn, None, None, 0, 0)
          /\ turn' = other(turn)
          /\ pc' = "step"
          /\ UNCHANGED <<shells, index, round_no, hp, inventory, current_known,
                         known_positions, dmg_mult, raised>> ]_vars

\* a skip on an empty magazine: the step did not reload
C14_Witness ==
    /\ last_log.kind = "skip"
    /\ Len(shells) - index = 0
    /\ pc = "step"
    /\ ~skip_next[other(turn)]


(***************************************************************************)
(* C15. Burner Phone at remaining() >= 2 adds to the user's                *)
(* known_positions exactly one entry, at an absolute index i with          *)
(* cursor < i <= N - 1, whose value is the true shell at i; the shell      *)
(* sequence, the cursor, the user's current_known and the opponent's       *)
(* knowledge store are unchanged.                                          *)
(***************************************************************************)
C15_BurnerPhone ==
    [][ (UseStep(BURNER_PHONE) /\ Len(shells) - index >= 2) =>
          LET kp == known_positions[turn]
              kq == known_positions'[turn]
          IN  /\ \E i \in (index + 1)..(Len(shells) - 1) :
                     /\ i \notin DOMAIN kp
                     /\ DOMAIN kq = (DOMAIN kp) \cup {i}
                     /\ kq[i] = shells[i + 1]
                     /\ \A j \in DOMAIN kp : kq[j] = kp[j]
              /\ UNCHANGED <<shells, index, current_known>>
              /\ known_positions'[other(turn)] = known_positions[other(turn)] ]_vars

\* the phone has just told the human a shell ahead of the cursor
C15_Witness ==
    /\ last_log.kind = "burner_phone"
    /\ last_log.user = player
    /\ \E i \in DOMAIN known_positions[player] :
           i > index /\ known_positions[player][i] = shells[i + 1]


(***************************************************************************)
(* C16. AI target choice: at its aim phase the dealer targets the human    *)
(* player when its current_known is LIVE, itself when it is BLANK, and     *)
(* otherwise the human player exactly when the LIVE shells at or after the *)
(* cursor are at least as many as the BLANK ones (counted now, not taken   *)
(* from the item pass's estimate), and itself otherwise.                   *)
(***************************************************************************)
LeftOf(s) == Cardinality({i \in (index + 1)..Len(shells) : shells[i] = s})

C16_AiTarget ==
    [][ pc = "ai_aim" =>
          /\ last_log'.kind = "fire"
          /\ last_log'.user = dealer
          /\ last_log'.target =
                 IF current_known[dealer] = LIVE THEN player
                 ELSE IF current_known[dealer] = BLANK THEN dealer
                 ELSE IF LeftOf(LIVE) >= LeftOf(BLANK) THEN player
                 ELSE dealer ]_vars

\* the dealer shot itself on the counts alone, and the shell was LIVE
C16_Witness ==
    /\ last_log.kind = "fire"
    /\ last_log.user = dealer
    /\ last_log.target = dealer
    /\ last_log.shell = LIVE


(***************************************************************************)
(* C17. current_known is always accurate: in every reachable state each    *)
(* actor's current_known is unknown or equal to the shell at the cursor;   *)
(* hence a dealer that shoots itself on current_known = BLANK fires a      *)
(* BLANK, takes no damage and keeps the turn.                              *)
(***************************************************************************)
KnownAccurate ==
    \A a \in Actors :
        current_known[a] # None =>
            /\ index < Len(shells)
            /\ current_known[a] = shells[index + 1]

C17_KnownAccurate ==
    [][ /\ KnownAccurate
        /\ KnownAccurate'
        /\ (pc = "ai_aim" /\ current_known[dealer] = BLANK) =>
               /\ last_log'.kind = "fire"
               /\ last_log'.target = dealer
               /\ last_log'.shell = BLANK
               /\ hp' = hp
               /\ turn' = dealer
               /\ pc' = "step" ]_vars

\* the dealer shot itself with a BLANK and kept the turn although the LIVE
\* shells were in the majority before the shot: it knew the shell
C17_Witness ==
    /\ last_log.kind = "fire"
    /\ last_log.user = dealer
    /\ last_log.target = dealer
    /\ last_log.shell = BLANK
    /\ LeftOf(LIVE) >= LeftOf(BLANK) + 1
    /\ turn = dealer
    /\ pc = "step"


(***************************************************************************)
(* C18. known_positions is certain knowledge: in every reachable state and *)
(* for each actor, every known_positions entry whose index the cursor has  *)
(* not passed (index >= cursor) equals the true shell at that index of the *)
(* current sequence, also after an Inverter is used at a revealed position.*)
(***************************************************************************)
C18_KnownPositionsCertain ==
    \A a \in Actors :
        \A i \in DOMAIN known_positions[a] :
            (i >= index /\ i < Len(shells)) =>
                known_positions[a][i] = shells[i + 1]

(***************************************************************************)
(* C19. An actor's HP is never negative: it stays within [0, max_hp] after *)
(* every shot, a Hand Saw LIVE shot on an actor with 1 HP included.        *)
(***************************************************************************)
C19_HpInRange ==
    \A a \in Actors : hp[a] >= 0 /\ hp[a] <= max_hp(a)


(***************************************************************************)
(* C20. Round progress: every step of the turn loop that is neither a skip *)
(* nor a reload fires exactly one shell, so the magazine is eventually     *)
(* exhausted and a reload occurs unless the game ends first.  The step's   *)
(* end is the move out of its item and aim phases; it must be a shot that  *)
(* advances the cursor by one.                                             *)
(***************************************************************************)
StepEnds ==
    /\ pc \notin {"step", "over", "crashed"}
    /\ pc' \in {"step", "over", "crashed"}

C20_StepFiresOneShell ==
    [][ StepEnds =>
          /\ last_log'.kind = "fire"
          /\ index' = index + 1
          /\ pc' # "crashed" ]_vars

====
